---- MODULE Spec2Model ----
(***************************************************************************)
(* Model of src/gpu/utils.rs of bellman: GPU platform / device resolution  *)
(* (find_platform, get_platform, get_devices), the lazily built core-count *)
(* table CORE_COUNTS with its BELLMAN_CUSTOM_GPU override parser,          *)
(* get_core_count, get_memory and dump_device_list.                        *)
(*                                                                         *)
(* Strings that the code parses (device names, BELLMAN_CUSTOM_GPU) are     *)
(* sequences of one-character strings, so split / trim / parse are         *)
(* computed character by character as the code does.  Platform names are   *)
(* only ever compared for equality and are plain strings.                  *)
(***************************************************************************)
EXTENDS Integers, Sequences, FiniteSets, TLC

(***************************************************************************)
(* Bounds of the model.                                                    *)
(***************************************************************************)
\* longest platform list the driver reports
MaxPlatforms == 2
\* most comma-separated cards in a generated BELLMAN_CUSTOM_GPU value
MaxCards == 2
\* number of threads calling get_core_count concurrently
NumThreads == 2

Threads == 1..NumThreads

(***************************************************************************)
(* Program constants.                                                      *)
(***************************************************************************)
GPU_NVIDIA_PLATFORM_NAME == "NVIDIA CUDA"
GPU_AMD_PLATFORM_NAME == "AMD Accelerated Parallel Processing"
DEFAULT_CORE_COUNT == 2560

DisabledMsg == "GPU accelerator is disabled!"
NotFoundMsg == "GPU platform not found!"
MemoryMsg == "Cannot extract GPU memory!"
InvalidCustomMsg == "Invalid BELLMAN_CUSTOM_GPU!"
\* an error of the ocl driver layer, converted by `?` into GPUError
OclMsg == "ocl error"
\* the panic of Result::unwrap on an Err
UnwrapMsg == "called Result::unwrap() on an Err value"
\* the panic of a poisoned Once
PoisonedMsg == "Once instance has previously been poisoned"

(***************************************************************************)
(* Environment variables.  A variable is unset, set to bytes that are not  *)
(* valid Unicode, or set to a string.  std::env::var returns Ok only in    *)
(* the last case (Err(NotPresent) / Err(NotUnicode) otherwise).            *)
(***************************************************************************)
Unset(dflt) == [kind |-> "unset", val |-> dflt]
NotUnicode(dflt) == [kind |-> "bytes", val |-> dflt]
Str(s) == [kind |-> "str", val |-> s]

IsSet(v) == v.kind # "unset"

env_var(v) == [ok |-> v.kind = "str", val |-> v.val]

(***************************************************************************)
(* String operations of the override parser.                               *)
(***************************************************************************)
Whitespace == {" ", "\t"}
DigitChars == <<"0", "1", "2", "3", "4", "5", "6", "7", "8", "9">>
IsDigit(c) == \E d \in 1..10 : DigitChars[d] = c
DigitVal(c) == (CHOOSE d \in 1..10 : DigitChars[d] = c) - 1

\* str::split(sep): the pieces between separators, one more than separators
RECURSIVE split(_, _)
split(s, sep) ==
  IF \A i \in 1..Len(s) : s[i] # sep
  THEN <<s>>
  ELSE LET i == CHOOSE k \in 1..Len(s) :
                  s[k] = sep /\ \A j \in 1..(k - 1) : s[j] # sep
       IN <<SubSeq(s, 1, i - 1)>> \o split(SubSeq(s, i + 1, Len(s)), sep)

\* str::trim(): drop leading and trailing whitespace
RECURSIVE trim_start(_)
trim_start(s) ==
  IF s # <<>> /\ Head(s) \in Whitespace THEN trim_start(Tail(s)) ELSE s

RECURSIVE trim_end(_)
trim_end(s) ==
  IF s # <<>> /\ s[Len(s)] \in Whitespace
  THEN trim_end(SubSeq(s, 1, Len(s) - 1))
  ELSE s

trim(s) == trim_end(trim_start(s))

\* value of a digit string, most significant digit first
RECURSIVE DigitsValue(_, _)
DigitsValue(s, acc) ==
  IF s = <<>> THEN acc ELSE DigitsValue(Tail(s), acc * 10 + DigitVal(Head(s)))

\* a faulty variant of parse_usize: the sign is stripped whichever it is, as a signed
\* parse would
parse_usize_signed(s) ==
  LET digits == IF s # <<>> /\ Head(s) \in {"+", "-"} THEN Tail(s) ELSE s
  IN IF digits = <<>> \/ \E i \in 1..Len(digits) : ~IsDigit(digits[i])
     THEN [ok |-> FALSE, val |-> 0]
     ELSE [ok |-> TRUE, val |-> DigitsValue(digits, 0)]

\* str::parse::<usize>(): an optional "+", then one or more ASCII digits.
\* (The inputs of the model stay far below usize::MAX.)
parse_usize(s) ==
  LET digits == IF s # <<>> /\ Head(s) = "+" THEN Tail(s) ELSE s
  IN IF digits = <<>> \/ \E i \in 1..Len(digits) : ~IsDigit(digits[i])
     THEN [ok |-> FALSE, val |-> 0]
     ELSE [ok |-> TRUE, val |-> DigitsValue(digits, 0)]

(***************************************************************************)
(* HashMap<String, usize> as a function from names to counts.              *)
(***************************************************************************)
EmptyMap == [k \in {} |-> 0]
\* a faulty variant of insert: an existing key keeps its value (entry().or_insert)
insert_keep(m, k, v) ==
  [x \in (DOMAIN m) \cup {k} |-> IF x \in DOMAIN m THEN m[x] ELSE v]

insert(m, k, v) == [x \in (DOMAIN m) \cup {k} |-> IF x = k THEN v ELSE m[x]]

\* Iterator::collect into a HashMap: insert the pairs in order
RECURSIVE collect(_, _)
collect(pairs, m) ==
  IF pairs = <<>> THEN m
  ELSE collect(Tail(pairs), insert(m, Head(pairs)[1], Head(pairs)[2]))

(***************************************************************************)
(* The built-in list of CORE_COUNTS.                                       *)
(***************************************************************************)
N_gfx1010 == <<"g", "f", "x", "1", "0", "1", "0">>
N_Quadro_RTX_6000 == <<"Q", "u", "a", "d", "r", "o", " ", "R", "T", "X", " ", "6", "0", "0", "0">>
N_TITAN_RTX == <<"T", "I", "T", "A", "N", " ", "R", "T", "X">>
N_Tesla_V100 == <<"T", "e", "s", "l", "a", " ", "V", "1", "0", "0">>
N_Tesla_P100 == <<"T", "e", "s", "l", "a", " ", "P", "1", "0", "0">>
N_Tesla_T4 == <<"T", "e", "s", "l", "a", " ", "T", "4">>
N_Quadro_M5000 == <<"Q", "u", "a", "d", "r", "o", " ", "M", "5", "0", "0", "0">>
N_GeForce_RTX_2080_Ti == <<"G", "e", "F", "o", "r", "c", "e", " ", "R", "T", "X", " ", "2", "0", "8", "0", " ", "T", "i">>
N_GeForce_RTX_2080_SUPER == <<"G", "e", "F", "o", "r", "c", "e", " ", "R", "T", "X", " ", "2", "0", "8", "0", " ", "S", "U", "P", "E", "R">>
N_GeForce_RTX_2080 == <<"G", "e", "F", "o", "r", "c", "e", " ", "R", "T", "X", " ", "2", "0", "8", "0">>
N_GeForce_RTX_2070_SUPER == <<"G", "e", "F", "o", "r", "c", "e", " ", "R", "T", "X", " ", "2", "0", "7", "0", " ", "S", "U", "P", "E", "R">>
N_GeForce_GTX_1080_Ti == <<"G", "e", "F", "o", "r", "c", "e", " ", "G", "T", "X", " ", "1", "0", "8", "0", " ", "T", "i">>
N_GeForce_GTX_1080 == <<"G", "e", "F", "o", "r", "c", "e", " ", "G", "T", "X", " ", "1", "0", "8", "0">>
N_GeForce_GTX_2060 == <<"G", "e", "F", "o", "r", "c", "e", " ", "G", "T", "X", " ", "2", "0", "6", "0">>
N_GeForce_GTX_1660_Ti == <<"G", "e", "F", "o", "r", "c", "e", " ", "G", "T", "X", " ", "1", "6", "6", "0", " ", "T", "i">>
N_GeForce_GTX_1060 == <<"G", "e", "F", "o", "r", "c", "e", " ", "G", "T", "X", " ", "1", "0", "6", "0">>
N_GeForce_GTX_1650_SUPER == <<"G", "e", "F", "o", "r", "c", "e", " ", "G", "T", "X", " ", "1", "6", "5", "0", " ", "S", "U", "P", "E", "R">>
N_GeForce_GTX_1650 == <<"G", "e", "F", "o", "r", "c", "e", " ", "G", "T", "X", " ", "1", "6", "5", "0">>

BuiltinList ==
  << <<N_gfx1010, 2560>>,
     <<N_Quadro_RTX_6000, 4608>>,
     <<N_TITAN_RTX, 4608>>,
     <<N_Tesla_V100, 5120>>,
     <<N_Tesla_P100, 3584>>,
     <<N_Tesla_T4, 2560>>,
     <<N_Quadro_M5000, 2048>>,
     <<N_GeForce_RTX_2080_Ti, 4352>>,
     <<N_GeForce_RTX_2080_SUPER, 3072>>,
     <<N_GeForce_RTX_2080, 2944>>,
     <<N_GeForce_RTX_2070_SUPER, 2560>>,
     <<N_GeForce_GTX_1080_Ti, 3584>>,
     <<N_GeForce_GTX_1080, 2560>>,
     <<N_GeForce_GTX_2060, 1920>>,
     <<N_GeForce_GTX_1660_Ti, 1536>>,
     <<N_GeForce_GTX_1060, 1280>>,
     <<N_GeForce_GTX_1650_SUPER, 1280>>,
     <<N_GeForce_GTX_1650, 896>> >>

core_counts_builtin == collect(BuiltinList, EmptyMap)

(***************************************************************************)
(* Inputs: device names, BELLMAN_CUSTOM_GPU values, driver responses.      *)
(***************************************************************************)
S_Foo == <<"F", "o", "o">>
S_Bar == <<"B", "a", "r">>
S_Unknown == <<"R", "a", "d", "e", "o", "n", " ", "V", "I", "I">>
Card_Foo100 == <<"F", "o", "o", ":", "1", "0", "0">>
Card_Bar200 == <<" ", "B", "a", "r", ":", "2", "0", "0">>
Card_Foo7 == <<"F", "o", "o", ":", "7">>
Card_TeslaT4 == <<"T", "e", "s", "l", "a", " ", "T", "4", ":", "1">>
Card_Padded == <<" ", "F", "o", "o", " ", ":", " ", "5", " ">>
Card_Plus == <<"F", "o", "o", ":", "+", "3">>
Card_NonNumeric == <<"F", "o", "o", ":", "b", "a", "r">>
Card_NoSeparator == <<"F", "o", "o", "-", "1", "0", "0">>
Card_ThreeFields == <<"a", ":", "b", ":", "c">>
Card_Empty == <<>>
Card_Negative == <<"F", "o", "o", ":", "-", "1">>
Card_NoCores == <<"B", "a", "r", ":">>

Cards ==
  { Card_Foo100, Card_Bar200, Card_Foo7, Card_TeslaT4, Card_Padded, Card_Plus,
    Card_NonNumeric, Card_NoSeparator, Card_ThreeFields, Card_Empty,
    Card_Negative, Card_NoCores }

\* the cards of a list written as one comma-separated string
RECURSIVE Join(_)
Join(cs) ==
  IF Len(cs) = 1 THEN cs[1] ELSE cs[1] \o <<",">> \o Join(Tail(cs))

CardLists == UNION { [1..n -> Cards] : n \in 1..MaxCards }

\* every value BELLMAN_CUSTOM_GPU takes in the parser specification
CustomGpuValues ==
  {Unset(<<>>), NotUnicode(<<>>)} \cup { Str(Join(cs)) : cs \in CardLists }

\* the values it takes where the whole interface is exercised
CustomGpuSamples ==
  { Unset(<<>>), NotUnicode(<<>>),
    Str(Join(<<Card_Foo100, Card_Bar200>>)),
    Str(Join(<<Card_TeslaT4, Card_Foo7>>)),
    Str(Join(<<Card_Foo100, Card_NonNumeric>>)) }

NoGpuValues == { Unset(""), NotUnicode(""), Str(""), Str("1") }

PlatformEnvValues ==
  { Unset(""), NotUnicode(""), Str(GPU_AMD_PLATFORM_NAME), Str("NVIDIA") }

\* the argument of get_platform: None or Some(name)
None == [some |-> FALSE, val |-> ""]
Some(s) == [some |-> TRUE, val |-> s]
PlatformArgs ==
  { None, Some(GPU_NVIDIA_PLATFORM_NAME), Some(GPU_AMD_PLATFORM_NAME),
    Some("nvidia cuda") }

\* results of fallible driver queries
QOk(v) == [ok |-> TRUE, val |-> v]
QErr(dflt) == [ok |-> FALSE, val |-> dflt]

\* Platform::list(): fails, or lists platforms, each with its name() result
PlatformRecs ==
  { [name |-> QOk(GPU_NVIDIA_PLATFORM_NAME)],
    [name |-> QOk(GPU_AMD_PLATFORM_NAME)],
    [name |-> QErr("")] }

PlatformLists == UNION { [1..n -> PlatformRecs] : n \in 0..MaxPlatforms }

PlatformConfigs ==
  {[ok |-> FALSE, list |-> <<>>]} \cup {[ok |-> TRUE, list |-> l] : l \in PlatformLists}

\* a device: the results of its name() and info(MaxComputeUnits) queries
Dev(n, u) == [name |-> n, units |-> u]
DevGood == Dev(QOk(N_Tesla_T4), QOk(40))
DevNoUnits == Dev(QOk(N_TITAN_RTX), QErr(0))
DevNoName == Dev(QErr(<<>>), QOk(36))

\* Device::list_all(platform): fails, or lists devices
DeviceListResponses ==
  { QErr(<<>>), QOk(<<>>), QOk(<<DevGood>>), QOk(<<DevNoName>>),
    QOk(<<DevGood, DevNoUnits>>) }

\* the name() result of the device handed to get_core_count
DeviceNameResults ==
  { QErr(<<>>), QOk(S_Foo), QOk(N_Tesla_T4), QOk(S_Unknown) }

DeviceNames == { r.val : r \in { x \in DeviceNameResults : x.ok } }

\* the info(GlobalMemSize) result of the device handed to get_memory
MemInfoResponses ==
  { [kind |-> "Err", val |-> 0],
    [kind |-> "GlobalMemSize", val |-> 8192],
    [kind |-> "MaxComputeUnits", val |-> 40] }

(***************************************************************************)
(* State.                                                                  *)
(***************************************************************************)
VARIABLES
  envNoGpu,       \* BELLMAN_NO_GPU
  envPlatform,    \* BELLMAN_PLATFORM
  envCustomGpu,   \* BELLMAN_CUSTOM_GPU
  platforms,      \* what Platform::list() answers
  onceState,      \* the Once guarding CORE_COUNTS
  CORE_COUNTS,    \* the published table (empty until construction completes)
  core_counts,    \* the local map of the construction body
  cards,          \* the cards var.split(",") has still to yield
  pc,             \* per thread: where it is inside get_core_count
  name,           \* per thread: the local `name` of get_core_count
  ret,            \* per thread: the outcome of its latest call
  initCount,      \* history: how often the construction body was entered
  firstEnv,       \* history: BELLMAN_CUSTOM_GPU as the first construction read it
  seen            \* history: per device name, the first count returned for it

vars ==
  << envNoGpu, envPlatform, envCustomGpu, platforms, onceState, CORE_COUNTS,
     core_counts, cards, pc, name, ret, initCount, firstEnv, seen >>

envVars == << envNoGpu, envPlatform, envCustomGpu >>
tableVars == << onceState, CORE_COUNTS, core_counts, cards, initCount, firstEnv >>

\* outcomes of a call
NoRet == [op |-> "none", tag |-> "-", err |-> "", val |-> 0, inp |-> <<>>]
Pending(op, inp) == [op |-> op, tag |-> "-", err |-> "", val |-> 0, inp |-> inp]
Ok(v) == [tag |-> "Ok", err |-> "", val |-> v]
Err(msg) == [tag |-> "Err", err |-> msg, val |-> 0]
Panic(msg) == [tag |-> "Panic", err |-> msg, val |-> 0]
Ret(op, inp, r) ==
  [op |-> op, tag |-> r.tag, err |-> r.err, val |-> r.val, inp |-> inp]

NotSeen == 0 - 1

(***************************************************************************)
(* Platform resolver.                                                      *)
(***************************************************************************)
\* a faulty variant of find_first: the last match instead of the first
find_last(list, platform_name) ==
  LET matches == { i \in 1..Len(list) :
                     list[i].name.ok /\ list[i].name.val = platform_name }
  IN IF matches = {} THEN 0
     ELSE CHOOSE i \in matches : \A j \in matches : i >= j

\* Iterator::find over the listed platforms: the first whose name() is Ok
\* and equal to the target; 0 when there is none
find_first(list, platform_name) ==
  LET matches == { i \in 1..Len(list) :
                     list[i].name.ok /\ list[i].name.val = platform_name }
  IN IF matches = {} THEN 0
     ELSE CHOOSE i \in matches : \A j \in matches : i <= j

\* a faulty variant of find_platform: a failed Platform::list() is taken for an empty
\* list (unwrap_or_default instead of `?`)
find_platform_swallow(platform_name) ==
  IF env_var(envNoGpu).ok THEN Err(DisabledMsg)
  ELSE LET list == IF platforms.ok THEN platforms.list ELSE <<>>
           matches == { i \in 1..Len(list) :
                          list[i].name.ok /\ list[i].name.val = platform_name }
       IN IF matches # {}
          THEN Ok(CHOOSE i \in matches : \A j \in matches : i <= j)
          ELSE Err(NotFoundMsg)

find_platform(platform_name) ==
  IF env_var(envNoGpu).ok THEN Err(DisabledMsg)
  ELSE IF ~platforms.ok THEN Err(OclMsg)
  ELSE LET p == find_first(platforms.list, platform_name)
       IN IF p # 0 THEN Ok(p) ELSE Err(NotFoundMsg)

\* a faulty variant of get_platform: BELLMAN_PLATFORM, when readable, overrides the
\* argument
get_platform_env_first(platform_name) ==
  LET e == env_var(envPlatform)
  IN IF e.ok THEN find_platform(e.val)
     ELSE IF platform_name.some THEN find_platform(platform_name.val)
     ELSE find_platform(GPU_NVIDIA_PLATFORM_NAME)

get_platform(platform_name) ==
  IF ~platform_name.some
  THEN LET e == env_var(envPlatform)
           platform_environment == IF e.ok THEN e.val ELSE GPU_NVIDIA_PLATFORM_NAME
       IN find_platform(platform_environment)
  ELSE find_platform(platform_name.val)

\* resp is what Device::list_all(platform) answers
get_devices(platform, resp) ==
  IF env_var(envNoGpu).ok THEN Err(DisabledMsg)
  ELSE IF ~resp.ok THEN Err(OclMsg)
  ELSE Ok(Len(resp.val))

\* info is what d.info(GlobalMemSize) answers
get_memory(info) ==
  IF info.kind = "Err" THEN Err(OclMsg)
  ELSE IF info.kind = "GlobalMemSize" THEN Ok(info.val)
  ELSE Err(MemoryMsg)

\* resp[i] is what Device::list_all answers for the i-th listed platform;
\* a failed enumeration is replaced by the empty list, a failed
\* info(MaxComputeUnits) is unwrapped
dump_device_list(resp) ==
  LET ps == IF platforms.ok THEN platforms.list ELSE <<>>
      ds(i) == IF resp[i].ok THEN resp[i].val ELSE <<>>
  IN IF \E i \in 1..Len(ps) : \E j \in 1..Len(ds(i)) : ~ds(i)[j].units.ok
     THEN Panic(UnwrapMsg)
     ELSE Ok(0)

CallGetPlatform(t, arg) ==
  /\ pc[t] = "idle"
  /\ ret' = [ret EXCEPT ![t] =
       Ret("get_platform",
           [arg |-> arg, noGpu |-> envNoGpu, envPlatform |-> envPlatform],
           get_platform(arg))]
  /\ UNCHANGED << envVars, platforms, tableVars, pc, name, seen >>

CallGetDevices(t, platform, resp) ==
  /\ pc[t] = "idle"
  /\ ret' = [ret EXCEPT ![t] =
       Ret("get_devices", [platform |-> platform, noGpu |-> envNoGpu, resp |-> resp],
           get_devices(platform, resp))]
  /\ UNCHANGED << envVars, platforms, tableVars, pc, name, seen >>

CallGetMemory(t, info) ==
  /\ pc[t] = "idle"
  /\ ret' = [ret EXCEPT ![t] = Ret("get_memory", [info |-> info], get_memory(info))]
  /\ UNCHANGED << envVars, platforms, tableVars, pc, name, seen >>

CallDumpDeviceList(t, resp) ==
  /\ pc[t] = "idle"
  /\ ret' = [ret EXCEPT ![t] =
       Ret("dump_device_list", [resp |-> resp], dump_device_list(resp))]
  /\ UNCHANGED << envVars, platforms, tableVars, pc, name, seen >>

(***************************************************************************)
(* CORE_COUNTS: construction under the Once of lazy_static, and lookup.    *)
(***************************************************************************)
\* one card of the override list: split on ":", two fields required, both
\* trimmed, the second parsed as usize; ok = FALSE is the panic
parse_card(card) ==
  LET splitted == split(card, ":")
  IN IF Len(splitted) # 2 THEN [ok |-> FALSE, name |-> <<>>, cores |-> 0]
     ELSE LET cores == parse_usize(trim(splitted[2]))
          IN [ok |-> cores.ok, name |-> trim(splitted[1]), cores |-> cores.val]

\* let name = d.name()?;
CallGetCoreCount(t, d) ==
  /\ pc[t] = "idle"
  /\ IF d.ok
     THEN /\ pc' = [pc EXCEPT ![t] = "deref"]
          /\ name' = [name EXCEPT ![t] = d.val]
          /\ ret' = [ret EXCEPT ![t] =
                 Pending("get_core_count", [name |-> d, customGpu |-> envCustomGpu])]
     ELSE /\ ret' = [ret EXCEPT ![t] =
                 Ret("get_core_count", [name |-> d, customGpu |-> envCustomGpu],
                     Err(OclMsg))]
          /\ UNCHANGED << pc, name >>
  /\ UNCHANGED << envVars, platforms, tableVars, seen >>

\* a faulty variant of OnceComplete: a thread that finds the construction running does
\* not wait for it
OnceCompleteNoWait(t) ==
  /\ pc[t] = "deref"
  /\ onceState \in {"COMPLETE", "RUNNING"}
  /\ pc' = [pc EXCEPT ![t] = "lookup"]
  /\ UNCHANGED << envVars, platforms, tableVars, name, ret, seen >>

\* a faulty variant of OnceComplete: the table is rebuilt from the environment on
\* every access
OnceCompleteRebuild(t) ==
  /\ pc[t] = "deref"
  /\ onceState = "COMPLETE"
  /\ onceState' = "RUNNING"
  /\ pc' = [pc EXCEPT ![t] = "build"]
  /\ core_counts' = core_counts_builtin
  /\ LET var == env_var(envCustomGpu)
     IN cards' = IF var.ok THEN split(var.val, ",") ELSE <<>>
  /\ initCount' = initCount + 1
  /\ UNCHANGED << envVars, platforms, CORE_COUNTS, firstEnv, name, ret, seen >>

\* CORE_COUNTS deref, table already built
OnceComplete(t) ==
  /\ pc[t] = "deref"
  /\ onceState = "COMPLETE"
  /\ pc' = [pc EXCEPT ![t] = "lookup"]
  /\ UNCHANGED << envVars, platforms, tableVars, name, ret, seen >>

\* CORE_COUNTS deref, first access: this thread runs the construction body,
\* which starts from the built-in list and reads BELLMAN_CUSTOM_GPU
OnceBegin(t) ==
  /\ pc[t] = "deref"
  /\ onceState = "INCOMPLETE"
  /\ onceState' = "RUNNING"
  /\ pc' = [pc EXCEPT ![t] = "build"]
  /\ core_counts' = core_counts_builtin
  /\ LET var == env_var(envCustomGpu)
     IN cards' = IF var.ok THEN split(var.val, ",") ELSE <<>>
  /\ initCount' = initCount + 1
  /\ firstEnv' = IF initCount = 0 THEN envCustomGpu ELSE firstEnv
  /\ UNCHANGED << envVars, platforms, CORE_COUNTS, name, ret, seen >>

\* CORE_COUNTS deref after a construction that panicked: the Once is
\* poisoned and the deref panics
OncePoisoned(t) ==
  /\ pc[t] = "deref"
  /\ onceState = "POISONED"
  /\ pc' = [pc EXCEPT ![t] = "idle"]
  /\ ret' = [ret EXCEPT ![t] = Ret("get_core_count", @.inp, Panic(PoisonedMsg))]
  /\ UNCHANGED << envVars, platforms, tableVars, name, seen >>

\* one iteration of `for card in var.split(",")`
BuildCard(t) ==
  /\ pc[t] = "build"
  /\ cards # <<>>
  /\ LET c == parse_card(Head(cards))
     IN IF c.ok
        THEN /\ core_counts' = insert(core_counts, c.name, c.cores)
             /\ cards' = Tail(cards)
             /\ UNCHANGED << onceState, pc, ret >>
        ELSE /\ onceState' = "POISONED"
             /\ core_counts' = EmptyMap
             /\ cards' = <<>>
             /\ pc' = [pc EXCEPT ![t] = "idle"]
             /\ ret' = [ret EXCEPT ![t] = Ret("get_core_count", @.inp, Panic(InvalidCustomMsg))]
  /\ UNCHANGED << envVars, platforms, CORE_COUNTS, name, initCount, firstEnv, seen >>

\* the construction body returns core_counts: the table is published
BuildFinish(t) ==
  /\ pc[t] = "build"
  /\ cards = <<>>
  /\ CORE_COUNTS' = core_counts
  /\ core_counts' = EmptyMap
  /\ onceState' = "COMPLETE"
  /\ pc' = [pc EXCEPT ![t] = "lookup"]
  /\ UNCHANGED << envVars, platforms, cards, name, ret, initCount, firstEnv, seen >>

\* a faulty variant of lookup: a name without an entry is an error
lookup_strict(table, n) ==
  IF n \in DOMAIN table THEN Ok(table[n]) ELSE Err("unknown device")

\* match CORE_COUNTS.get(&name[..])
lookup(table, n) ==
  IF n \in DOMAIN table THEN Ok(table[n]) ELSE Ok(DEFAULT_CORE_COUNT)

Lookup(t) ==
  /\ pc[t] = "lookup"
  /\ LET r == lookup(CORE_COUNTS, name[t])
     IN /\ ret' = [ret EXCEPT ![t] = Ret("get_core_count", @.inp, r)]
        /\ seen' = IF seen[name[t]] = NotSeen
                   THEN [seen EXCEPT ![name[t]] = r.val] ELSE seen
  /\ pc' = [pc EXCEPT ![t] = "idle"]
  /\ UNCHANGED << envVars, platforms, tableVars, name >>

(***************************************************************************)
(* The environment changing between calls.                                 *)
(***************************************************************************)
AllIdle == \A t \in Threads : pc[t] = "idle"

SetNoGpu(v) ==
  /\ AllIdle
  /\ v # envNoGpu
  /\ envNoGpu' = v
  /\ UNCHANGED << envPlatform, envCustomGpu, platforms, tableVars, pc, name, ret, seen >>

SetPlatformEnv(v) ==
  /\ AllIdle
  /\ v # envPlatform
  /\ envPlatform' = v
  /\ UNCHANGED << envNoGpu, envCustomGpu, platforms, tableVars, pc, name, ret, seen >>

SetCustomGpu(v) ==
  /\ AllIdle
  /\ v # envCustomGpu
  /\ envCustomGpu' = v
  /\ UNCHANGED << envNoGpu, envPlatform, platforms, tableVars, pc, name, ret, seen >>

(***************************************************************************)
(* Specifications.                                                         *)
(***************************************************************************)
InitTable ==
  /\ onceState = "INCOMPLETE"
  /\ CORE_COUNTS = EmptyMap
  /\ core_counts = EmptyMap
  /\ cards = <<>>
  /\ pc = [t \in Threads |-> "idle"]
  /\ name = [t \in Threads |-> <<>>]
  /\ ret = [t \in Threads |-> NoRet]
  /\ initCount = 0
  /\ firstEnv = Unset(<<>>)
  /\ seen = [n \in DeviceNames |-> NotSeen]

GetCoreCountSteps(t) ==
  \/ \E d \in DeviceNameResults : CallGetCoreCount(t, d)
  \/ OnceComplete(t)
  \/ OnceBegin(t)
  \/ OncePoisoned(t)
  \/ BuildCard(t)
  \/ BuildFinish(t)
  \/ Lookup(t)

DumpDeviceList(t) ==
  \E resp \in [1..Len(platforms.list) -> DeviceListResponses] :
    CallDumpDeviceList(t, resp)

\* Spec: one caller using the whole interface, the environment changing
\* between its calls
NoGpuFew == { Unset(""), Str("1") }
PlatformEnvFew == { Unset(""), Str(GPU_AMD_PLATFORM_NAME) }
PlatformConfigsFew ==
  { [ok |-> FALSE, list |-> <<>>],
    [ok |-> TRUE, list |-> <<[name |-> QOk(GPU_NVIDIA_PLATFORM_NAME)]>>] }

Init ==
  /\ envNoGpu \in NoGpuFew
  /\ envPlatform \in PlatformEnvFew
  /\ envCustomGpu \in CustomGpuSamples
  /\ platforms \in PlatformConfigsFew
  /\ InitTable

Next ==
  \/ \E arg \in PlatformArgs : CallGetPlatform(1, arg)
  \/ \E resp \in DeviceListResponses : CallGetDevices(1, 1, resp)
  \/ \E info \in MemInfoResponses : CallGetMemory(1, info)
  \/ DumpDeviceList(1)
  \/ GetCoreCountSteps(1)
  \/ \E v \in NoGpuFew : SetNoGpu(v)
  \/ \E v \in PlatformEnvFew : SetPlatformEnv(v)
  \/ \E v \in CustomGpuSamples : SetCustomGpu(v)

Spec == Init /\ [][Next]_vars

\* SpecResolve: the resolver, enumerator and dumper over every driver
\* configuration and every value of BELLMAN_NO_GPU and BELLMAN_PLATFORM
InitResolve ==
  /\ envNoGpu \in NoGpuValues
  /\ envPlatform \in PlatformEnvValues
  /\ envCustomGpu = Unset(<<>>)
  /\ platforms \in PlatformConfigs
  /\ InitTable

NextResolve ==
  \/ \E arg \in PlatformArgs : CallGetPlatform(1, arg)
  \/ \E p \in 1..MaxPlatforms, resp \in DeviceListResponses : CallGetDevices(1, p, resp)
  \/ DumpDeviceList(1)
  \/ \E v \in NoGpuValues : SetNoGpu(v)
  \/ \E v \in PlatformEnvValues : SetPlatformEnv(v)

SpecResolve == InitResolve /\ [][NextResolve]_vars

\* SpecParse: the override parser over every generated BELLMAN_CUSTOM_GPU
\* value, one caller calling get_core_count again and again
InitParse ==
  /\ envNoGpu = Unset("")
  /\ envPlatform = Unset("")
  /\ envCustomGpu \in CustomGpuValues
  /\ platforms = [ok |-> TRUE, list |-> <<>>]
  /\ InitTable

NextParse == GetCoreCountSteps(1)

SpecParse == InitParse /\ [][NextParse]_vars

\* SpecOnce: threads racing for the first access to CORE_COUNTS
InitOnce ==
  /\ envNoGpu = Unset("")
  /\ envPlatform = Unset("")
  /\ envCustomGpu \in CustomGpuSamples
  /\ platforms = [ok |-> TRUE, list |-> <<>>]
  /\ InitTable

NextOnce == \E t \in Threads : GetCoreCountSteps(t)

SpecOnce == InitOnce /\ [][NextOnce]_vars

(***************************************************************************)
(* Reference reading of a BELLMAN_CUSTOM_GPU string, stated by positions   *)
(* and not by the parser's operations: the properties below compare the    *)
(* table the code builds against it.                                       *)
(***************************************************************************)
AsciiDigits == {"0", "1", "2", "3", "4", "5", "6", "7", "8", "9"}

\* the fields of s cut at sep, each as <<a, b>>: the characters strictly
\* between positions a and b, where a and b are neighbouring cuts
RefFields(s, sep) ==
  LET cuts == {0, Len(s) + 1} \cup { i \in 1..Len(s) : s[i] = sep }
  IN { f \in cuts \X cuts :
         f[1] < f[2] /\ \A c \in cuts : ~(f[1] < c /\ c < f[2]) }

RefText(s, f) == SubSeq(s, f[1] + 1, f[2] - 1)

\* x without its leading and trailing blanks
RefStrip(x) ==
  LET solid == { i \in 1..Len(x) : x[i] \notin {" ", "\t"} }
  IN IF solid = {} THEN <<>>
     ELSE SubSeq(x, CHOOSE i \in solid : \A j \in solid : i <= j,
                    CHOOSE i \in solid : \A j \in solid : i >= j)

\* x is a non-negative integer in decimal, with or without a "+"
RefIsNat(x) ==
  LET d == IF x # <<>> /\ x[1] = "+" THEN SubSeq(x, 2, Len(x)) ELSE x
  IN d # <<>> /\ \A i \in 1..Len(d) : d[i] \in AsciiDigits

RECURSIVE RefNat(_)
RefNat(x) ==
  IF x = <<>> \/ x = <<"+">> THEN 0
  ELSE LET last == x[Len(x)]
           v == CHOOSE n \in 0..9 : DigitChars[n + 1] = last
       IN RefNat(SubSeq(x, 1, Len(x) - 1)) * 10 + v

\* an entry is well formed: exactly one ":", a number after it
RefEntryOk(e) ==
  /\ Cardinality({ i \in 1..Len(e) : e[i] = ":" }) = 1
  /\ RefIsNat(RefStrip(RefText(e, CHOOSE f \in RefFields(e, ":") : f[1] # 0)))

RefEntryName(e) == RefStrip(RefText(e, CHOOSE f \in RefFields(e, ":") : f[1] = 0))
RefEntryCores(e) ==
  RefNat(RefStrip(RefText(e, CHOOSE f \in RefFields(e, ":") : f[1] # 0)))

RefWellFormed(s) == \A f \in RefFields(s, ",") : RefEntryOk(RefText(s, f))

\* the environment value makes table construction fatal
RefFatal(v) == v.kind = "str" /\ ~RefWellFormed(v.val)

RefBuiltin ==
  [ n \in { BuiltinList[i][1] : i \in 1..Len(BuiltinList) } |->
      BuiltinList[CHOOSE i \in 1..Len(BuiltinList) : BuiltinList[i][1] = n][2] ]

\* the table a well-formed (or unreadable, or unset) value stands for: the
\* built-in table, each overridden name mapped to the cores of its last entry
RefTable(v) ==
  IF v.kind # "str" THEN RefBuiltin
  ELSE LET fs == RefFields(v.val, ",")
           named(n) == { f \in fs : RefEntryName(RefText(v.val, f)) = n }
           names == { RefEntryName(RefText(v.val, f)) : f \in fs }
           lastOf(n) == CHOOSE f \in named(n) : \A g \in named(n) : g[1] <= f[1]
       IN [ n \in (DOMAIN RefBuiltin) \cup names |->
              IF n \in names THEN RefEntryCores(RefText(v.val, lastOf(n)))
              ELSE RefBuiltin[n] ]

RefLookup(v, n) ==
  IF n \in DOMAIN RefTable(v) THEN RefTable(v)[n] ELSE DEFAULT_CORE_COUNT

(***************************************************************************)
(* Properties.                                                             *)
(***************************************************************************)
Finished(r, op) == r.op = op /\ r.tag # "-"

\* the name get_platform resolves, from the inputs of the call
TargetOf(inp) ==
  IF inp.arg.some THEN inp.arg.val
  ELSE IF inp.envPlatform.kind = "str" THEN inp.envPlatform.val
  ELSE GPU_NVIDIA_PLATFORM_NAME

MatchesOf(target) ==
  { i \in 1..Len(platforms.list) :
      platforms.list[i].name.ok /\ platforms.list[i].name.val = target }

\* C1: whenever BELLMAN_NO_GPU is set, to any value, at the time of the
\* call, get_platform and get_devices return the Disabled error, whatever
\* is installed and whatever the driver answers.
C1_DisabledWhenSet ==
  \A t \in Threads :
    (ret[t].op \in {"get_platform", "get_devices"} /\ IsSet(ret[t].inp.noGpu))
      => (ret[t].tag = "Err" /\ ret[t].err = DisabledMsg)

\* the outcome of resolving one name: the driver error if enumeration
\* fails, else the first platform of that name, else Not Found; a value
\* that is not a string names no platform
ResolveRef(target) ==
  IF ~platforms.ok THEN Err(OclMsg)
  ELSE LET m == IF target.kind = "str" THEN MatchesOf(target.val) ELSE {}
       IN IF m = {} THEN Err(NotFoundMsg)
          ELSE Ok(CHOOSE i \in m : \A j \in m : i <= j)

SameOutcome(r, o) == r.tag = o.tag /\ r.err = o.err /\ r.val = o.val

C3_ThreeOutcomes ==
  \A t \in Threads :
    (Finished(ret[t], "get_platform") /\ ~IsSet(ret[t].inp.noGpu))
      => LET r == ret[t]
             m == MatchesOf(TargetOf(r.inp))
         IN /\ ~platforms.ok => (r.tag = "Err" /\ r.err = OclMsg)
            /\ (platforms.ok /\ m = {}) => (r.tag = "Err" /\ r.err = NotFoundMsg)
            /\ (platforms.ok /\ m # {}) => (r.tag = "Ok" /\ r.val \in m)
            /\ r.err = NotFoundMsg => platforms.ok

\* C3 witness: Not Found from a successful enumeration of no platform.
C3_Witness ==
  /\ Finished(ret[1], "get_platform")
  /\ ~IsSet(ret[1].inp.noGpu)
  /\ platforms.ok
  /\ platforms.list = <<>>
  /\ ret[1].err = NotFoundMsg

\* C10: with the disable flag unset and enumeration succeeding, the result
\* is the first platform in enumeration order whose name query succeeds
\* with the target name; a platform whose name query fails is skipped, its
\* failure never propagated; with no match the result is Not Found.
C10_FirstMatchSkipsFailedNames ==
  \A t \in Threads :
    (Finished(ret[t], "get_platform") /\ ~IsSet(ret[t].inp.noGpu) /\ platforms.ok)
      => LET r == ret[t]
             m == MatchesOf(TargetOf(r.inp))
         IN /\ r.err # OclMsg
            /\ IF m = {} THEN r.tag = "Err" /\ r.err = NotFoundMsg
               ELSE r.tag = "Ok" /\ r.val \in m /\ \A j \in m : r.val <= j

\* C10 witness: the first platform's name query fails and the second
\* platform, which matches, is returned.
C10_Witness ==
  /\ Finished(ret[1], "get_platform")
  /\ ~IsSet(ret[1].inp.noGpu)
  /\ platforms.ok
  /\ Len(platforms.list) >= 2
  /\ ~platforms.list[1].name.ok
  /\ ret[1].tag = "Ok"
  /\ ret[1].val = 2

\* C7: dump_device_list returns normally whatever the driver answers.
C7_DumpNeverFails ==
  \A t \in Threads : ret[t].op = "dump_device_list" => ret[t].tag = "Ok"

\* C4 as stated: for a device whose name query succeeds, get_core_count
\* returns Ok(stored count) or Ok(2560) in every environment configuration
\* and on every call.
C4_AlwaysOk ==
  \A t \in Threads :
    (Finished(ret[t], "get_core_count") /\ ret[t].inp.name.ok)
      => (ret[t].tag = "Ok" /\ ret[t].val = lookup(CORE_COUNTS, ret[t].inp.name.val).val)

\* C4 amended: for a device whose name query succeeds, get_core_count
\* returns Ok(stored count) if the name is a key of the table and Ok(2560)
\* if not, on every call, unless the BELLMAN_CUSTOM_GPU value read by table
\* construction has a malformed entry: then the call panics (fatal
\* configuration error) and so does every later call.  The only error it
\* returns is the failure of the name query.
C4_OkUnlessFatal ==
  \A t \in Threads :
    Finished(ret[t], "get_core_count")
      => LET r == ret[t]
             n == r.inp.name.val
         IN /\ r.tag = "Err" <=> ~r.inp.name.ok
            /\ r.tag = "Err" => r.err = OclMsg
            /\ r.tag = "Panic" <=> (r.inp.name.ok /\ RefFatal(firstEnv))
            /\ r.tag = "Ok" =>
                 /\ onceState = "COMPLETE"
                 /\ n \in DOMAIN CORE_COUNTS => r.val = CORE_COUNTS[n]
                 /\ n \notin DOMAIN CORE_COUNTS => r.val = DEFAULT_CORE_COUNT

\* C4 witness: a name absent from the table got the default count, and a
\* later call still does.
C4_Witness ==
  /\ Finished(ret[1], "get_core_count")
  /\ ret[1].inp.name = QOk(S_Unknown)
  /\ S_Unknown \notin DOMAIN CORE_COUNTS
  /\ onceState = "COMPLETE"
  /\ seen[S_Unknown] = DEFAULT_CORE_COUNT
  /\ ret[1].tag = "Ok"
  /\ ret[1].val = DEFAULT_CORE_COUNT

\* C5: once built from a well-formed BELLMAN_CUSTOM_GPU, the table is the
\* built-in table overwritten in list order with (trimmed name -> cores):
\* each overridden name maps to the cores of its last entry, every other
\* built-in name keeps its count; unset, the table is the built-in table.
C5_TableIsBuiltinOverridden ==
  /\ (onceState = "COMPLETE" /\ firstEnv.kind = "unset")
       => CORE_COUNTS = RefBuiltin
  /\ (onceState \in {"COMPLETE", "POISONED"} /\ firstEnv.kind = "str"
        /\ RefWellFormed(firstEnv.val))
       => /\ onceState = "COMPLETE"
          /\ CORE_COUNTS = RefTable(firstEnv)

\* C5 witness: "Foo:100, Bar:200" has been built into the table.
C5_Witness ==
  /\ onceState = "COMPLETE"
  /\ firstEnv = Str(Join(<<Card_Foo100, Card_Bar200>>))
  /\ S_Foo \in DOMAIN CORE_COUNTS
  /\ CORE_COUNTS[S_Foo] = 100
  /\ CORE_COUNTS[S_Bar] = 200
  /\ CORE_COUNTS[N_Tesla_T4] = 2560

C8_OnceOnly ==
  /\ initCount <= 1
  /\ Cardinality({ t \in Threads : pc[t] = "build" }) <= 1
  /\ \A t \in Threads :
       pc[t] = "lookup"
         => /\ onceState = "COMPLETE"
            /\ initCount = 1
            /\ CORE_COUNTS = RefTable(firstEnv)
  /\ \A t \in Threads :
       (Finished(ret[t], "get_core_count") /\ ret[t].tag = "Ok")
         => ret[t].val = RefLookup(firstEnv, ret[t].inp.name.val)

\* C8 witness: one thread is inside the construction body while another
\* has reached the deref and waits.
C8_Witness ==
  \E t, u \in Threads :
    /\ t # u
    /\ pc[t] = "build"
    /\ cards # <<>>
    /\ pc[u] = "deref"
    /\ onceState = "RUNNING"

\* C9: the table is built by the first get_core_count that reaches the
\* lookup and never changes: whatever calls and environment changes
\* follow, every count returned is the one the value BELLMAN_CUSTOM_GPU had
\* at that first access gives, and a name always gets the same count.
C9_BuiltOnceFromFirstEnv ==
  /\ initCount <= 1
  /\ onceState = "COMPLETE" => CORE_COUNTS = RefTable(firstEnv)
  /\ \A n \in DeviceNames :
       seen[n] # NotSeen => seen[n] = RefLookup(firstEnv, n)
  /\ \A t \in Threads :
       (Finished(ret[t], "get_core_count") /\ ret[t].tag = "Ok")
         => ret[t].val = seen[ret[t].inp.name.val]

\* C9 witness: BELLMAN_CUSTOM_GPU now gives Foo another count than it did
\* at the first access, and get_core_count still returns the first one.
C9_Witness ==
  /\ onceState = "COMPLETE"
  /\ firstEnv = Str(Join(<<Card_Foo100, Card_Bar200>>))
  /\ envCustomGpu = Str(Join(<<Card_TeslaT4, Card_Foo7>>))
  /\ envNoGpu = Str("1")
  /\ Finished(ret[1], "get_core_count")
  /\ ret[1].inp.customGpu = envCustomGpu
  /\ ret[1].inp.name = QOk(S_Foo)
  /\ ret[1].tag = "Ok"
  /\ ret[1].val = 100

====
